---- MODULE Spec2Model ----
(***************************************************************************)
(* The session pool of package spannerr (src/spannerr.go): client with its *)
(* mutex smu and its map sessions (session name -> taken), driven by       *)
(* concurrent callers of AcquireSession, ReleaseSession and Close, and the *)
(* Cloud Spanner backend they call (create session, delete session).       *)
(*                                                                         *)
(* Every call is split at the points where the mutex orders it: the call,  *)
(* smu.Lock(), the body, and the return that runs the deferred             *)
(* smu.Unlock().                                                           *)
(*                                                                         *)
(* Spec is the pool; SpecSQL is session.ExecuteSQL, which touches nothing  *)
(* of the pool.                                                            *)
(***************************************************************************)
EXTENDS FiniteSets, Integers, Sequences, TLC

\* ------------------------------------------------------------------ bounds
NumCallers == 2
MaxCapacity == 2
MaxParams == 3
NumParamNames == 2

Callers == 1..NumCallers
\* Session names the backend can assign: one more than any capacity, so that
\* a pool creating one session too many is not stopped by the bound.
MaxNames == MaxCapacity + 1
BackendNames == 1..MaxNames

\* The mutex's zero value: nobody holds it.
NoOne == 0
\* The name of a Session value that this pool never created.
ForeignName == 0

VARIABLES
    maxSessions,  \* client.maxSessions
    sessions,     \* client.sessions: name -> taken
    mu,           \* client.smu: the caller holding it, or NoOne
    pc,           \* each caller's position
    arg,          \* the Session passed to the caller's ReleaseSession
    pre,          \* the map as the caller found it when it took the mutex
    ret,          \* the caller's result, once the body has produced it
    creates,      \* backend Create calls issued by the caller's current call
    dels,         \* name -> Delete calls issued for it by the caller's Close
    created,      \* sessions the backend has created so far
    remote,       \* sessions alive at the backend
    lent,         \* names returned by AcquireSession and not given back since
    stale,        \* names of which a loan has ended: a handle given back exists
                  \* (loans are followed until a Session the pool never returned
                  \* is released, and no further)
    expired,      \* free records idle for longer than the idle timeout
    discipline,   \* the weakest kind of handle passed to ReleaseSession so far
    landed,       \* the free record the caller's range stopped at, if any
    burst,        \* the callers of the opening burst of AcquireSession calls
    example,      \* how far the run has followed exhausted; release; acquire
    failed,       \* names whose Delete returned an error in the caller's Close
    closes,       \* the Close calls that have returned on this pool: none,
                  \* some, or one that failed after Delete calls had succeeded
    params,       \* ExecuteSQL: the params argument
    pVals,        \* ExecuteSQL: the value map built from params
    sqlpc,        \* ExecuteSQL: the call's position
    executes,     \* ExecuteSQL: backend ExecuteSql calls issued by the call
    sqlret        \* ExecuteSQL: the (res, err) returned

vars == <<maxSessions, sessions, mu, pc, arg, pre, ret, creates, dels,
          created, remote, lent, stale, expired, discipline,
          landed,
          burst, example, failed, closes,
          params, pVals, sqlpc, executes, sqlret>>

\* ------------------------------------------------------------- the map
EmptyMap == [n \in {} |-> FALSE]
EmptyCalls == [n \in {} |-> 0]

\* len(c.sessions)
MapLen(s) == Cardinality(DOMAIN s)

\* s[k] = v of a Go map: inserts k when it is absent.
MapSet(s, k, v) == [n \in (DOMAIN s) \cup {k} |-> IF n = k THEN v ELSE s[n]]

\* Variants of the capacity check: one record short, and one record over.
HasRoom_offByOne(s, m) == MapLen(s) + 1 < m
HasRoom_le(s, m) == MapLen(s) <= m

\* if len(c.sessions) < c.maxSessions
HasRoom(s, m) == MapLen(s) < m

\* A range that does not look at the taken flag.
FreeNames_all(s) == DOMAIN s

\* for name, taken := range c.sessions { if !taken { ... } }: the records the
\* range can stop at (a Go map is ranged over in an unspecified order).
FreeNames(s) == {n \in DOMAIN s : ~s[n]}

\* An acquisition that records the session as free.
MarkTaken_free(s, n) == MapSet(s, n, FALSE)

\* c.sessions[sess.Name()] = true
MarkTaken(s, n) == MapSet(s, n, TRUE)

\* A release that drops the record from the map.
ReleaseMap_evicts(s, h) == [n \in (DOMAIN s) \ {h} |-> s[n]]

\* A release that flips the flag, and one that leaves the record taken.
ReleaseMap_toggle(s, h) == MapSet(s, h, IF h \in DOMAIN s THEN ~s[h] ELSE FALSE)
ReleaseMap_keepsTaken(s, h) == MapSet(s, h, TRUE)

\* c.sessions[sess.Name()] = false
ReleaseMap(s, h) == MapSet(s, h, FALSE)

\* A message whose count is never filled in.
ExhaustedCount_unformatted(s) == 0

\* errors.Errorf("all %d sessions are in use...", len(c.sessions))
ExhaustedCount(s) == MapLen(s)

\* A Close that passes over the records in use.
CloseTargets_freeOnly(s, done) == FreeNames(s) \ DOMAIN done

\* for s := range c.sessions: the records Close has still to visit (a range
\* yields each key of an unchanging map once).
CloseTargets(s, done) == (DOMAIN s) \ DOMAIN done

\* sess.Delete(s).Do() is issued for n.
Issue(done, n) ==
    [k \in (DOMAIN done) \cup {n} |->
        IF k = n THEN (IF n \in DOMAIN done THEN done[n] + 1 ELSE 1) ELSE done[k]]

\* A newSession that tries Create a second time.
CreateCalls_retry == 1 + 1

\* resp, err := sess.Create(c.conn, ...).Do(): the Create calls one newSession
\* issues, whether the call succeeds or fails.
CreateCalls == 1

\* ------------------------------------------------------------- the mutex
LockFree(m) == m = NoOne

\* ------------------------------------------------------------- results
NoRet == [kind |-> "none", name |-> 0, count |-> 0]
OkRet(n) == [kind |-> "ok", name |-> n, count |-> 0]
ErrRet(k) == [kind |-> k, name |-> 0, count |-> 0]
ExhaustedRet(k) == [kind |-> "exhausted", name |-> 0, count |-> k]

\* A Close that reports success although a Delete failed.
DeleteError_swallowed(f) == OkRet(ForeignName)

\* _, err := sess.Delete(s).Do(); if err != nil { return err }: the error of
\* the Delete issued for f, as Close returns it.
DeleteError(f) == [ErrRet("err_delete") EXCEPT !.name = f]

\* ------------------------------------------------------------- handles
\* How a handle passed to ReleaseSession stands with the pool: the handle of
\* a current loan (own); else a handle this pool returned for a loan that
\* has ended; else a Session this pool never returned, whatever its Name().
HandleKind(h, own) ==
    IF own THEN "borrowed"
    ELSE IF h \in stale THEN "returned"
    ELSE "any"

\* The loans, followed while every Session released came from this pool.
Followed(d, names) == IF d = "any" THEN {} ELSE names

Weaker(a, b) ==
    IF a = "any" \/ b = "any" THEN "any"
    ELSE IF a = "returned" \/ b = "returned" THEN "returned"
    ELSE "borrowed"

\* Close has been called on the pool, if it had not been already.
CloseCalled(h) == IF h = "never" THEN "called" ELSE h

\* A Close that returned the error of a Delete after other Delete calls of
\* its range had succeeded.
PartWay(issued, errs) == errs # {} /\ (DOMAIN issued) \ errs # {}

\* ------------------------------------------------------------- observers
\* The opening burst: AcquireSession calls by distinct callers on the new
\* pool, with nothing else called and no backend failure so far.
BurstOff == [on |-> FALSE, callers |-> {}]
BurstJoin(b, c) ==
    IF b.on /\ c \notin b.callers
    THEN [on |-> TRUE, callers |-> b.callers \cup {c}]
    ELSE BurstOff

\* The run exhausted; release; acquire, with no other call in between.
NoExample == [stage |-> "none", name |-> ForeignName]

locals == <<arg, pre, ret, creates, dels, landed, failed>>
query == <<params, pVals, sqlpc, executes, sqlret>>
backend == <<created, remote>>
borrowing == <<lent, stale, discipline>>

\* ------------------------------------------------------------ ExecuteSQL
\* Param.Name, and Param.Value by what json.Marshal makes of it: a value it
\* encodes (an int, say) or one it returns an UnsupportedTypeError for (a chan).
ParamNames == 1..NumParamNames
ParamValues == {"int", "chan"}
Params == [name : ParamNames, value : ParamValues]

\* params []*Param
ParamLists == UNION {[1..k -> Params] : k \in 0..MaxParams}

\* pVals = map[string]interface{}{}
EmptyVals == [n \in {} |-> "int"]

\* for _, p := range params { pVals[p.Name] = p.Value }: a later parameter of
\* the same name replaces the earlier one.
RECURSIVE BuildVals(_, _)
BuildVals(ps, acc) ==
    IF ps = <<>> THEN acc
    ELSE BuildVals(Tail(ps), MapSet(acc, Head(ps).name, Head(ps).value))

\* json.Marshal(pVals) returns a nil error: every value of the map encodes.
Marshals(vals) == \A n \in DOMAIN vals : vals[n] # "chan"

\* A Wrap that makes an error of a nil error.
Wrap_nonNil(err, msg) == <<msg, err>>

\* errors.Wrap(err, msg): nil when err is nil.
Wrap(err, msg) == IF err = "nil" THEN "nil" ELSE <<msg, err>>

\* No ExecuteSQL call is under way.
NoQuery ==
    /\ params = <<>>
    /\ pVals = EmptyVals
    /\ sqlpc = "none"
    /\ executes = 0
    /\ sqlret = [res |-> "nil", err |-> "nil"]

\* ------------------------------------------------------------------ Init
\* NewClient(project, instances, database, maxSessions)
Init ==
    /\ maxSessions \in 0..MaxCapacity
    /\ sessions = EmptyMap
    /\ mu = NoOne
    /\ pc = [c \in Callers |-> "idle"]
    /\ arg = [c \in Callers |-> ForeignName]
    /\ pre = [c \in Callers |-> EmptyMap]
    /\ ret = [c \in Callers |-> NoRet]
    /\ creates = [c \in Callers |-> 0]
    /\ dels = [c \in Callers |-> EmptyCalls]
    /\ landed = [c \in Callers |-> {}]
    /\ created = 0
    /\ remote = {}
    /\ lent = {}
    /\ stale = {}
    /\ expired = {}
    /\ discipline = "borrowed"
    /\ burst = [on |-> TRUE, callers |-> {}]
    /\ example = NoExample
    /\ failed = [c \in Callers |-> {}]
    /\ closes = "never"
    /\ NoQuery

\* -------------------------------------------------------- AcquireSession
\* c.smu.Lock(); defer c.smu.Unlock(): the caller enters the body with the
\* mutex, and keeps it until AcquireReturn. A caller blocked on the mutex has
\* done nothing yet, so the call starts where Lock returns.
AcquireEnters(c) ==
    /\ pc[c] = "idle"
    /\ LockFree(mu)
    /\ mu' = c
    /\ pre' = [pre EXCEPT ![c] = sessions]
    /\ pc' = [pc EXCEPT ![c] = "acq_ret"]
    /\ example' = IF example.stage = "released"
                  THEN [example EXCEPT !.stage = "acquiring"]
                  ELSE NoExample
    /\ UNCHANGED <<failed, closes, query>>

\* fill the buffer first; newSession: newSpanner fails
AcquireNewInitFail(c) ==
    /\ AcquireEnters(c)
    /\ HasRoom(sessions, maxSessions)
    /\ ret' = [ret EXCEPT ![c] = ErrRet("err_init")]
    /\ burst' = BurstOff
    /\ UNCHANGED <<maxSessions, sessions, arg, creates, dels, landed,
                   backend, borrowing, expired>>

\* fill the buffer first; newSession: sess.Create(...).Do() fails
AcquireNewCreateFail(c) ==
    /\ AcquireEnters(c)
    /\ HasRoom(sessions, maxSessions)
    /\ creates' = [creates EXCEPT ![c] = @ + CreateCalls]
    /\ ret' = [ret EXCEPT ![c] = ErrRet("err_create")]
    /\ burst' = BurstOff
    /\ UNCHANGED <<maxSessions, sessions, arg, dels, landed,
                   backend, borrowing, expired>>

\* fill the buffer first; newSession succeeds: the backend assigns a name it
\* has never assigned; c.sessions[sess.Name()] = true; return sess, nil
AcquireNewOk(c) ==
    /\ AcquireEnters(c)
    /\ HasRoom(sessions, maxSessions)
    /\ created < MaxNames
    /\ LET name == created + 1 IN
        /\ created' = name
        /\ remote' = remote \cup {name}
        /\ creates' = [creates EXCEPT ![c] = @ + CreateCalls]
        /\ sessions' = MarkTaken(sessions, name)
        /\ ret' = [ret EXCEPT ![c] = OkRet(name)]
    /\ burst' = BurstJoin(burst, c)
    /\ UNCHANGED <<maxSessions, arg, dels, landed, borrowing, expired>>

\* the range stops at a free record, marks it taken, and newSpanner succeeds
AcquireReuseOk(c) ==
    /\ AcquireEnters(c)
    /\ ~HasRoom(sessions, maxSessions)
    /\ \E name \in FreeNames(sessions) :
        /\ sessions' = MarkTaken(sessions, name)
        /\ landed' = [landed EXCEPT ![c] = {name}]
        /\ ret' = [ret EXCEPT ![c] = OkRet(name)]
    /\ burst' = BurstJoin(burst, c)
    /\ UNCHANGED <<maxSessions, arg, creates, dels, backend, borrowing,
                   expired>>

\* the range stops at a free record, marks it taken, and newSpanner fails
AcquireReuseInitFail(c) ==
    /\ AcquireEnters(c)
    /\ ~HasRoom(sessions, maxSessions)
    /\ \E name \in FreeNames(sessions) :
        /\ sessions' = MarkTaken(sessions, name)
        /\ landed' = [landed EXCEPT ![c] = {name}]
        /\ ret' = [ret EXCEPT ![c] = ErrRet("err_init")]
    /\ burst' = BurstOff
    /\ UNCHANGED <<maxSessions, arg, creates, dels, backend, borrowing,
                   expired>>

\* the range ends without a free record
AcquireExhausted(c) ==
    /\ AcquireEnters(c)
    /\ ~HasRoom(sessions, maxSessions)
    /\ FreeNames(sessions) = {}
    /\ ret' = [ret EXCEPT ![c] = ExhaustedRet(ExhaustedCount(sessions))]
    /\ burst' = BurstJoin(burst, c)
    /\ UNCHANGED <<maxSessions, sessions, arg, creates, dels, landed,
                   backend, borrowing, expired>>

\* the deferred c.smu.Unlock(); the caller has its Session or its error
AcquireReturn(c) ==
    /\ pc[c] = "acq_ret"
    /\ mu' = NoOne
    /\ lent' = Followed(discipline,
                        IF ret[c].kind = "ok" THEN lent \cup {ret[c].name} ELSE lent)
    /\ expired' = expired \ landed[c]
    /\ example' = IF /\ ret[c].kind = "exhausted"
                     /\ maxSessions = 2
                     /\ MapLen(sessions) = 2
                     /\ \A d \in Callers \ {c} : pc[d] = "idle"
                  THEN [stage |-> "exhausted", name |-> ForeignName]
                  ELSE NoExample
    /\ pc' = [pc EXCEPT ![c] = "idle"]
    /\ pre' = [pre EXCEPT ![c] = EmptyMap]
    /\ ret' = [ret EXCEPT ![c] = NoRet]
    /\ creates' = [creates EXCEPT ![c] = 0]
    /\ landed' = [landed EXCEPT ![c] = {}]
    /\ UNCHANGED <<maxSessions, sessions, arg, dels, backend, stale,
                   discipline, burst, failed, closes, query>>

\* -------------------------------------------------------- ReleaseSession
\* The caller passes the handle of its loan (own), or else a handle already
\* given back or a Session this pool never made, named like a record of the
\* map or not.
\* c.smu.Lock(); defer c.smu.Unlock(); c.sessions[sess.Name()] = false
ReleaseSession(c, h, own) ==
    /\ pc[c] = "idle"
    /\ IF own THEN h \in lent ELSE h \in (DOMAIN sessions) \cup {ForeignName}
    /\ LockFree(mu)
    /\ mu' = c
    /\ arg' = [arg EXCEPT ![c] = h]
    /\ pre' = [pre EXCEPT ![c] = sessions]
    /\ sessions' = ReleaseMap(sessions, h)
    /\ ret' = [ret EXCEPT ![c] = OkRet(h)]
    /\ pc' = [pc EXCEPT ![c] = "rel_ret"]
    /\ expired' = expired \ {h}
    /\ discipline' = Weaker(discipline, HandleKind(h, own))
    /\ lent' = Followed(discipline', IF own THEN lent \ {h} ELSE lent)
    /\ stale' = Followed(discipline', IF own THEN stale \cup {h} ELSE stale)
    /\ burst' = BurstOff
    /\ example' = IF example.stage = "exhausted" /\ h \in DOMAIN sessions
                  THEN [stage |-> "released", name |-> h]
                  ELSE NoExample
    /\ UNCHANGED <<maxSessions, creates, dels, landed, backend, failed,
                   closes, query>>

\* the deferred c.smu.Unlock()
ReleaseReturn(c) ==
    /\ pc[c] = "rel_ret"
    /\ mu' = NoOne
    /\ pc' = [pc EXCEPT ![c] = "idle"]
    /\ arg' = [arg EXCEPT ![c] = ForeignName]
    /\ pre' = [pre EXCEPT ![c] = EmptyMap]
    /\ ret' = [ret EXCEPT ![c] = NoRet]
    /\ UNCHANGED <<maxSessions, sessions, creates, dels, landed,
                   backend, borrowing, expired, burst, example, failed,
                   closes, query>>

\* ----------------------------------------------------------------- Close
\* svc, err := newSpanner(ctx) fails: Close returns the error before it takes
\* the mutex, having touched nothing of the pool.
CloseInitFail(c) ==
    /\ pc[c] = "idle"
    /\ burst' = BurstOff
    /\ example' = NoExample
    /\ closes' = CloseCalled(closes)
    /\ UNCHANGED <<maxSessions, sessions, mu, pc, locals, backend, borrowing,
                   expired, query>>

\* newSpanner succeeds; c.smu.Lock(); defer c.smu.Unlock()
CloseEnters(c) ==
    /\ pc[c] = "idle"
    /\ LockFree(mu)
    /\ mu' = c
    /\ pre' = [pre EXCEPT ![c] = sessions]
    /\ pc' = [pc EXCEPT ![c] = "close_ret"]
    /\ burst' = BurstOff
    /\ example' = NoExample

\* The Delete calls of a range that has got through the records of done.
IssueAll(done) == [n \in done |-> 1]

\* for s := range c.sessions: every sess.Delete(s).Do() succeeds, each having
\* found its session alive at the backend; return nil
CloseOk(c) ==
    /\ CloseEnters(c)
    /\ CloseTargets(sessions, EmptyCalls) \subseteq remote
    /\ remote' = remote \ CloseTargets(sessions, EmptyCalls)
    /\ dels' = [dels EXCEPT ![c] = IssueAll(CloseTargets(sessions, EmptyCalls))]
    /\ ret' = [ret EXCEPT ![c] = OkRet(ForeignName)]
    /\ UNCHANGED <<maxSessions, sessions, arg, creates, landed, created,
                   borrowing, expired, failed, closes, query>>

\* for s := range c.sessions: the Delete calls for the records of done
\* succeed, in the order the range takes, and the next one, for f, fails:
\* return err
CloseFail(c) ==
    /\ CloseEnters(c)
    /\ \E f \in CloseTargets(sessions, EmptyCalls) :
        \E done \in SUBSET (CloseTargets(sessions, EmptyCalls) \ {f}) :
            /\ done \subseteq remote
            /\ remote' = remote \ done
            /\ dels' = [dels EXCEPT ![c] = Issue(IssueAll(done), f)]
            /\ failed' = [failed EXCEPT ![c] = {f}]
            /\ ret' = [ret EXCEPT ![c] = DeleteError(f)]
    /\ UNCHANGED <<maxSessions, sessions, arg, creates, landed, created,
                   borrowing, expired, closes, query>>

\* the deferred c.smu.Unlock()
CloseReturn(c) ==
    /\ pc[c] = "close_ret"
    /\ mu' = NoOne
    /\ pc' = [pc EXCEPT ![c] = "idle"]
    /\ pre' = [pre EXCEPT ![c] = EmptyMap]
    /\ ret' = [ret EXCEPT ![c] = NoRet]
    /\ dels' = [dels EXCEPT ![c] = EmptyCalls]
    /\ failed' = [failed EXCEPT ![c] = {}]
    /\ closes' = IF PartWay(dels[c], failed[c]) THEN "partial"
                 ELSE CloseCalled(closes)
    /\ UNCHANGED <<maxSessions, sessions, arg, creates, landed,
                   backend, borrowing, expired, burst, example, query>>

\* ------------------------------------------------------------------ time
\* A free record stays unused for longer than the idle timeout.
IdleTimeoutElapses(n) ==
    /\ n \in FreeNames(sessions)
    /\ n \notin expired
    /\ expired' = expired \cup {n}
    /\ UNCHANGED <<maxSessions, sessions, mu, pc, locals, backend, borrowing,
                   burst, example, closes, query>>

\* ------------------------------------------------------------ ExecuteSQL
pool == <<maxSessions, sessions, mu, pc, locals, backend, borrowing, expired,
          burst, example, closes>>

\* The loop over params, then json.Marshal(pVals).
ExecuteSQLEnters(ps) ==
    /\ sqlpc = "none"
    /\ params' = ps
    /\ pVals' = BuildVals(ps, EmptyVals)
    /\ sqlpc' = "sql_ret"
    /\ UNCHANGED pool

\* pJSON, err := json.Marshal(pVals) fails: return nil, errors.Wrap(err, ...)
ExecuteSQLMarshalFail(ps) ==
    /\ ExecuteSQLEnters(ps)
    /\ ~Marshals(pVals')
    /\ executes' = executes
    /\ sqlret' = [res |-> "nil",
                  err |-> Wrap("unsupported", "unable to encode query params")]

\* s.sess.ExecuteSql(...).Do() returns the rows: return res, errors.Wrap(nil, ...)
ExecuteSQLOk(ps) ==
    /\ ExecuteSQLEnters(ps)
    /\ Marshals(pVals')
    /\ executes' = executes + 1
    /\ sqlret' = [res |-> "rows", err |-> Wrap("nil", "unable to execute query")]

\* s.sess.ExecuteSql(...).Do() fails: return res, errors.Wrap(err, ...)
ExecuteSQLBackendFail(ps) ==
    /\ ExecuteSQLEnters(ps)
    /\ Marshals(pVals')
    /\ executes' = executes + 1
    /\ sqlret' = [res |-> "nil",
                  err |-> Wrap("backend", "unable to execute query")]

\* The caller has its result.
ExecuteSQLReturn ==
    /\ sqlpc = "sql_ret"
    /\ params' = <<>>
    /\ pVals' = EmptyVals
    /\ sqlpc' = "none"
    /\ executes' = 0
    /\ sqlret' = [res |-> "nil", err |-> "nil"]
    /\ UNCHANGED pool

NextSQL ==
    \/ \E ps \in ParamLists : ExecuteSQLMarshalFail(ps)
    \/ \E ps \in ParamLists : ExecuteSQLOk(ps)
    \/ \E ps \in ParamLists : ExecuteSQLBackendFail(ps)
    \/ ExecuteSQLReturn

SpecSQL == Init /\ [][NextSQL]_vars

\* ------------------------------------------------------------------ Next
Next ==
    \/ \E c \in Callers : AcquireNewInitFail(c)
    \/ \E c \in Callers : AcquireNewCreateFail(c)
    \/ \E c \in Callers : AcquireNewOk(c)
    \/ \E c \in Callers : AcquireReuseOk(c)
    \/ \E c \in Callers : AcquireReuseInitFail(c)
    \/ \E c \in Callers : AcquireExhausted(c)
    \/ \E c \in Callers : AcquireReturn(c)
    \/ \E c \in Callers, h \in BackendNames \cup {ForeignName}, own \in BOOLEAN :
            ReleaseSession(c, h, own)
    \/ \E c \in Callers : ReleaseReturn(c)
    \/ \E c \in Callers : CloseInitFail(c)
    \/ \E c \in Callers : CloseOk(c)
    \/ \E c \in Callers : CloseFail(c)
    \/ \E c \in Callers : CloseReturn(c)
    \/ \E n \in BackendNames \cup {ForeignName} : IdleTimeoutElapses(n)

Spec == Init /\ [][Next]_vars

\* ------------------------------------------------------------ type check
TypeOK ==
    /\ maxSessions \in 0..MaxCapacity
    /\ DOMAIN sessions \subseteq BackendNames \cup {ForeignName}
    /\ mu \in Callers \cup {NoOne}
    /\ created \in 0..MaxNames
    /\ remote \subseteq BackendNames
    /\ lent \subseteq DOMAIN sessions
    /\ stale \subseteq DOMAIN sessions
    /\ expired \subseteq DOMAIN sessions
    /\ discipline \in {"borrowed", "returned", "any"}
    /\ \A c \in Callers : Cardinality(landed[c]) <= 1
    /\ \A c \in Callers : creates[c] \in 0..1
    /\ created <= MaxCapacity
    /\ \A c \in Callers : failed[c] \subseteq DOMAIN dels[c]
    /\ closes \in {"never", "called", "partial"}
    /\ params \in ParamLists
    /\ DOMAIN pVals \subseteq ParamNames
    /\ executes \in 0..1

\* ================================================================ claims
\* The caller at the end of an AcquireSession body, the mutex still held.
AcqDone(c) == pc[c] = "acq_ret"
AcqFailedInit(c) == ret[c].kind = "err_init"
AcqFailedBackend(c) == ret[c].kind \in {"err_init", "err_create"}

\* Every ReleaseSession so far was passed the handle of a current loan.
WellBehaved == discipline = "borrowed"

\* C1: in every reachable state of a pool of capacity at least 1, the number
\* of session records in the map is at most maxSessions.
C1_CapacityNeverExceeded == maxSessions >= 1 => MapLen(sessions) <= maxSessions

\* AcquireSession never returns a name that is still lent.
NoDoubleLend ==
    \A c \in Callers :
        (AcqDone(c) /\ ret[c].kind = "ok") => ret[c].name \notin lent

\* C2 as stated: ReleaseSession being called with any handle previously
\* returned by AcquireSession of this pool, AcquireSession never returns a
\* session name whose most recent borrower has not yet released it.
C2_AnyReturnedHandle == discipline # "any" => NoDoubleLend

\* C2 as amended: ReleaseSession being called only with handles that are
\* currently borrowed (returned by AcquireSession and not released since),
\* AcquireSession never returns a session name whose most recent borrower has
\* not yet released it.
C2_BorrowedHandlesOnly == discipline = "borrowed" => NoDoubleLend

C2_Witness ==
    /\ discipline = "borrowed"
    /\ lent # {}
    /\ \E c \in Callers :
        /\ AcqDone(c)
        /\ ret[c].kind = "ok"
        /\ landed[c] = {ret[c].name}
        /\ ret[c].name \in stale

\* C3: on a new pool of capacity N, while at most N callers have called
\* AcquireSession and the backend has not failed, every call that has
\* finished has succeeded with a name no other caller holds, and once all
\* the calls have returned the callers hold as many distinct names as calls
\* were made.
C3_BurstDistinct ==
    (burst.on /\ Cardinality(burst.callers) <= maxSessions) =>
        /\ \A c \in burst.callers :
            AcqDone(c) => (ret[c].kind = "ok" /\ ret[c].name \notin lent)
        /\ (\A c \in burst.callers : pc[c] = "idle") =>
            Cardinality(lent) = Cardinality(burst.callers)

C3_Witness ==
    /\ burst.on
    /\ maxSessions >= 2
    /\ Cardinality(burst.callers) = maxSessions
    /\ \A c \in burst.callers : pc[c] = "idle"
    /\ Cardinality(lent) = maxSessions

\* C4: an AcquireSession that finds fewer records than maxSessions, and whose
\* backend calls succeed, issues one Create, returns a name that was not a
\* key of the map, and leaves the map as it found it plus that name marked
\* taken: no free record is reused and no other flag changes.
C4_FillFirst ==
    \A c \in Callers :
        (AcqDone(c) /\ MapLen(pre[c]) < maxSessions /\ ~AcqFailedBackend(c)) =>
            /\ ret[c].kind = "ok"
            /\ ret[c].name \notin DOMAIN pre[c]
            /\ ret[c].name \in remote
            /\ creates[c] = 1
            /\ landed[c] = {}
            /\ MapLen(sessions) = MapLen(pre[c]) + 1
            /\ sessions = MapSet(pre[c], ret[c].name, TRUE)

C4_Witness ==
    \E c \in Callers :
        /\ AcqDone(c)
        /\ MapLen(pre[c]) < maxSessions
        /\ FreeNames(pre[c]) # {}
        /\ ret[c].kind = "ok"
        /\ creates[c] = 1

\* An AcquireSession that found the map at capacity with a record free and
\* not expired.
ReusableFound(c) ==
    /\ AcqDone(c)
    /\ MapLen(pre[c]) = maxSessions
    /\ {n \in DOMAIN pre[c] : ~pre[c][n]} \ expired # {}

\* The call succeeded by reusing a record that was free, without a Create.
ReusedFree(c) ==
    /\ ret[c].kind = "ok"
    /\ creates[c] = 0
    /\ ret[c].name \in DOMAIN pre[c]
    /\ ~pre[c][ret[c].name]
    /\ sessions = MapSet(pre[c], ret[c].name, TRUE)
    /\ MapLen(sessions) = MapLen(pre[c])

\* C5 as stated, for callers that release only the handles of their loans:
\* whenever AcquireSession finds the record count equal to capacity and a
\* record free and unexpired, the call succeeds, issues no Create, returns a
\* name that was free, marks exactly that record taken and leaves the count
\* unchanged.
C5_ReuseAlwaysSucceeds ==
    WellBehaved => \A c \in Callers : ReusableFound(c) => ReusedFree(c)

\* C5 as amended: the same, provided the initialisation of the backend client
\* (newSpanner) for the reused record succeeds.
C5_ReuseWhenClientInits ==
    \A c \in Callers : (ReusableFound(c) /\ ~AcqFailedInit(c)) => ReusedFree(c)

C5_Witness ==
    \E c \in Callers :
        /\ ReusableFound(c)
        /\ ReusedFree(c)
        /\ MapLen(pre[c]) >= 2
        /\ \E n \in DOMAIN pre[c] : pre[c][n]

\* C6: an AcquireSession that finds the record count equal to capacity and
\* every record taken fails as exhausted, reports the record count, issues
\* no Create and leaves the map as it was.
C6_Exhausted ==
    \A c \in Callers :
        (AcqDone(c) /\ MapLen(pre[c]) = maxSessions
                    /\ \A n \in DOMAIN pre[c] : pre[c][n]) =>
            /\ ret[c].kind = "exhausted"
            /\ ret[c].count = MapLen(pre[c])
            /\ creates[c] = 0
            /\ sessions = pre[c]

C6_Witness ==
    \E c \in Callers :
        /\ AcqDone(c)
        /\ maxSessions >= 1
        /\ MapLen(pre[c]) = maxSessions
        /\ \A n \in DOMAIN pre[c] : pre[c][n]
        /\ ret[c].kind = "exhausted"

\* C7: a ReleaseSession of a tracked handle succeeds and leaves its record
\* free; a second release would change nothing; and when the record was
\* already free the map is left exactly as it was.
C7_ReleaseIdempotent ==
    \A c \in Callers :
        (pc[c] = "rel_ret" /\ arg[c] \in DOMAIN pre[c]) =>
            /\ ret[c].kind = "ok"
            /\ ~sessions[arg[c]]
            /\ ReleaseMap(sessions, arg[c]) = sessions
            /\ MapLen(sessions) = MapLen(pre[c])
            /\ (~pre[c][arg[c]] => sessions = pre[c])

C7_Witness ==
    \E c \in Callers :
        /\ pc[c] = "rel_ret"
        /\ arg[c] \in stale
        /\ arg[c] \in DOMAIN pre[c]
        /\ ~pre[c][arg[c]]
        /\ sessions = pre[c]

\* C8 as stated, for callers that release only the handles of their loans:
\* capacity 2, both sessions taken, an AcquireSession failed as exhausted,
\* then ReleaseSession of s1 and no other call: the next AcquireSession
\* succeeds, returns s1 and issues no Create.
C8_ReleasedIsReacquired ==
    \A c \in Callers :
        (WellBehaved /\ AcqDone(c) /\ example.stage = "acquiring") =>
            /\ ret[c].kind = "ok"
            /\ ret[c].name = example.name
            /\ creates[c] = 0

\* C8 as amended: the same, provided the initialisation of the backend client
\* (newSpanner) in that AcquireSession succeeds.
C8_ReacquiredWhenClientInits ==
    \A c \in Callers :
        (AcqDone(c) /\ example.stage = "acquiring" /\ ~AcqFailedInit(c)) =>
            /\ ret[c].kind = "ok"
            /\ ret[c].name = example.name
            /\ creates[c] = 0

C8_Witness ==
    \E c \in Callers :
        /\ AcqDone(c)
        /\ example.stage = "acquiring"
        /\ WellBehaved
        /\ maxSessions = 2
        /\ lent = DOMAIN sessions \ {example.name}
        /\ ret[c] = OkRet(example.name)
        /\ creates[c] = 0

\* C9, for callers that release only the handles of their loans and while
\* the backend does not fail: an AcquireSession on a saturated pool whose
\* range stops at a free record idle for longer than the idle timeout removes
\* that record, creates a new session and returns a name different from the
\* discarded one.
C9_ExpiredReplaced ==
    \A c \in Callers :
        (WellBehaved /\ AcqDone(c) /\ MapLen(pre[c]) = maxSessions
                    /\ landed[c] \cap expired # {} /\ ~AcqFailedBackend(c)) =>
            /\ ret[c].kind = "ok"
            /\ ret[c].name \notin landed[c]
            /\ landed[c] \cap DOMAIN sessions = {}
            /\ creates[c] = 1

\* C10: when Close returns nil it has issued exactly one Delete for every
\* name that was in the map, taken or free, and for no other name.
C10_CloseDeletesAll ==
    \A c \in Callers :
        (pc[c] = "close_ret" /\ ret[c].kind = "ok") =>
            /\ DOMAIN dels[c] = DOMAIN pre[c]
            /\ \A n \in DOMAIN pre[c] : dels[c][n] = 1

C10_Witness ==
    \E c \in Callers :
        /\ pc[c] = "close_ret"
        /\ ret[c].kind = "ok"
        /\ \E n \in DOMAIN pre[c] : pre[c][n]
        /\ \E n \in DOMAIN pre[c] : ~pre[c][n]
        /\ DOMAIN dels[c] = DOMAIN pre[c]

\* ------------------------------------------------------------ C11 .. C20
\* The caller at the end of a Close body, the mutex still held.
CloseDone(c) == pc[c] = "close_ret"

\* C11: at the end of a Close in which a Delete failed, Close returns that
\* Delete's error, no other Delete it issued has failed (each succeeded and
\* was issued once, the range having stopped at the failure), and the result
\* is not success; a Close that returns nil has had every Delete succeed.
C11_FirstErrorStops ==
    \A c \in Callers :
        CloseDone(c) =>
            /\ failed[c] # {} =>
                /\ ret[c].kind = "err_delete"
                /\ failed[c] = {ret[c].name}
                /\ \A n \in DOMAIN dels[c] : dels[c][n] = 1
                /\ \A n \in (DOMAIN dels[c]) \ failed[c] : n \notin remote
            /\ ret[c].kind = "ok" =>
                /\ failed[c] = {}
                /\ \A n \in DOMAIN dels[c] : n \notin remote

C11_Witness ==
    \E c \in Callers :
        /\ CloseDone(c)
        /\ WellBehaved
        /\ ret[c].kind = "err_delete"
        /\ failed[c] = {ret[c].name}
        /\ \E n \in DOMAIN pre[c] : n \notin DOMAIN dels[c] /\ n \in remote

\* C12: a ReleaseSession whose handle names no record of the map fails, and
\* leaves the map, and so the record count, as it was.
C12_UntrackedRejected ==
    \A c \in Callers :
        (pc[c] = "rel_ret" /\ arg[c] \notin DOMAIN pre[c]) =>
            /\ ret[c].kind # "ok"
            /\ sessions = pre[c]
            /\ MapLen(sessions) = MapLen(pre[c])

\* C13: an AcquireSession that finds fewer records than maxSessions and whose
\* Create fails returns the error having issued that one Create and no
\* second one, and leaves the map as it found it.
C13_CreateFailureNoRetry ==
    \A c \in Callers :
        (AcqDone(c) /\ MapLen(pre[c]) < maxSessions
                    /\ ret[c].kind = "err_create") =>
            /\ creates[c] = 1
            /\ landed[c] = {}
            /\ sessions = pre[c]

C13_Witness ==
    \E c \in Callers :
        /\ AcqDone(c)
        /\ MapLen(pre[c]) < maxSessions
        /\ pre[c] # EmptyMap
        /\ ret[c].kind = "err_create"
        /\ creates[c] = 1
        /\ sessions = pre[c]

\* The calls a step can be the body of.
Acquiring == \E c \in Callers : pc[c] = "idle" /\ pc'[c] = "acq_ret"
Releasing == \E c \in Callers : pc[c] = "idle" /\ pc'[c] = "rel_ret"
Closing == \E c \in Callers : pc[c] = "idle" /\ pc'[c] = "close_ret"

\* C14: in every step, a record that enters the map enters it taken and by
\* AcquireSession; a record goes from taken to free only by ReleaseSession
\* and from free to taken only by AcquireSession; and a record leaves the map
\* only by AcquireSession (expiry) or by Close.
C14_Lifecycle ==
    [][\A n \in BackendNames \cup {ForeignName} :
        /\ (n \notin DOMAIN sessions /\ n \in DOMAIN sessions') =>
                (sessions'[n] /\ Acquiring)
        /\ (n \in DOMAIN sessions /\ n \in DOMAIN sessions') =>
                /\ (sessions[n] /\ ~sessions'[n]) => Releasing
                /\ (~sessions[n] /\ sessions'[n]) => Acquiring
        /\ (n \in DOMAIN sessions /\ n \notin DOMAIN sessions') =>
                (Acquiring \/ Closing)]_vars

HealthyClose(c) == failed[c] \cap remote = {}

\* C16, for callers that release only the handles of their loans: after a
\* Close that failed part-way, a Close during which the backend is healthy
\* returns nil and leaves no session of the pool alive at the backend.
C16_CloseAgainCleansUp ==
    \A c \in Callers :
        (WellBehaved /\ CloseDone(c) /\ closes = "partial" /\ HealthyClose(c)) =>
            /\ ret[c].kind = "ok"
            /\ remote = {}

\* C18, for callers that release only the handles of their loans: an
\* AcquireSession that returns an error leaves the map, keys and flags, as it
\* found it.
C18_FailedAcquireNoEffect ==
    WellBehaved =>
        \A c \in Callers : (AcqDone(c) /\ ret[c].kind # "ok") => sessions = pre[c]

\* C19, for callers that release only the handles of their loans: the name
\* AcquireSession returns is of a session alive at the backend, never one
\* that a Close has deleted.
C19_NeverLendsDeleted ==
    WellBehaved =>
        \A c \in Callers :
            (AcqDone(c) /\ ret[c].kind = "ok") => ret[c].name \in remote

\* C20, for callers that release only the handles of their loans, capacity
\* at least 1 and Close never called: with every call returned, the pool is
\* never full of taken records while no caller holds a handle.
C20_NoPermanentExhaustion ==
    (/\ WellBehaved
     /\ maxSessions >= 1
     /\ closes = "never"
     /\ \A c \in Callers : pc[c] = "idle") =>
        ~(/\ MapLen(sessions) = maxSessions
          /\ FreeNames(sessions) = {}
          /\ lent = {})

\* C17: at the end of ExecuteSQL: when some parameter's value does not encode
\* and no later parameter of the same name replaces it, the call returns an
\* error and has issued no backend ExecuteSql call; otherwise it has issued
\* exactly one, and returns either that call's error, wrapped, or its result
\* with a nil error.
Unserializable(ps) ==
    \E i \in 1..Len(ps) :
        /\ ps[i].value = "chan"
        /\ \A j \in (i + 1)..Len(ps) : ps[j].name # ps[i].name

C17_FailFastOnMarshal ==
    sqlpc = "sql_ret" =>
        IF Unserializable(params)
        THEN /\ sqlret.err # "nil"
             /\ sqlret.res = "nil"
             /\ executes = 0
        ELSE /\ executes = 1
             /\ \/ sqlret = [res |-> "rows", err |-> "nil"]
                \/ /\ sqlret.err = <<"unable to execute query", "backend">>
                   /\ sqlret.res = "nil"

C17_Witness ==
    /\ sqlpc = "sql_ret"
    /\ \E i \in 1..Len(params) : params[i].value = "chan"
    /\ ~Unserializable(params)
    /\ executes = 1
    /\ sqlret = [res |-> "rows", err |-> "nil"]
====
